---- MODULE Spec2Model ----
(***************************************************************************)
(* Model of bestest.py: the mark-sheet pipeline run by main().  A PDF is   *)
(* a sequence of pages, a page a sequence of embedded images, an image the *)
(* sequence of text spans the OCR reader returns for it, and a span a      *)
(* sequence of one-character strings.  Text is assembled, matched against  *)
(* the record pattern, classified, split and exported.                     *)
(***************************************************************************)
EXTENDS Integers, Sequences, FiniteSets, TLC

VARIABLES pdf, pc, full_text, matches, data, df, passed, failed, absent,
          detained, sheets, outcome, calls

vars == <<pdf, pc, full_text, matches, data, df, passed, failed, absent,
          detained, sheets, outcome, calls>>

(***************************************************************************)
(* Characters and character classes (re.IGNORECASE, str.lower, \s, \d).    *)
(***************************************************************************)
NL == "\n"
SP == " "

DigitChars == <<"0", "1", "2", "3", "4", "5", "6", "7", "8", "9">>
UpperChars == <<"A", "B", "C", "D", "E", "F", "G", "H", "I", "J", "K", "L", "M",
                "N", "O", "P", "Q", "R", "S", "T", "U", "V", "W", "X", "Y", "Z">>
LowerChars == <<"a", "b", "c", "d", "e", "f", "g", "h", "i", "j", "k", "l", "m",
                "n", "o", "p", "q", "r", "s", "t", "u", "v", "w", "x", "y", "z">>

Range(s) == {s[k] : k \in DOMAIN s}

Digits == Range(DigitChars)
Letters == Range(UpperChars) \cup Range(LowerChars)
Spaces == {SP, NL}
AlnumChars == Letters \cup Digits
NameChars == Letters \cup Spaces

\* str.lower() on one character
LowerChar(c) ==
    IF c \in Range(UpperChars)
    THEN LowerChars[CHOOSE k \in DOMAIN UpperChars : UpperChars[k] = c]
    ELSE c

\* str.lower()
Lower(s) == [k \in DOMAIN s |-> LowerChar(s[k])]

DigitVal(c) == (CHOOSE k \in DOMAIN DigitChars : DigitChars[k] = c) - 1

\* s[i:j] with 1-based i and exclusive end j
Slice(s, i, j) == IF j <= i THEN <<>> ELSE SubSeq(s, i, j - 1)

RECURSIVE LStrip(_)
LStrip(s) == IF s # <<>> /\ Head(s) \in Spaces THEN LStrip(Tail(s)) ELSE s

RECURSIVE RStrip(_)
RStrip(s) ==
    IF s # <<>> /\ s[Len(s)] \in Spaces THEN RStrip(SubSeq(s, 1, Len(s) - 1)) ELSE s

\* str.strip()
Strip(s) == RStrip(LStrip(s))

\* sep.join(parts)
RECURSIVE Join(_, _)
Join(parts, sep) ==
    IF parts = <<>> THEN <<>>
    ELSE IF Len(parts) = 1 THEN parts[1]
    ELSE parts[1] \o sep \o Join(Tail(parts), sep)

(***************************************************************************)
(* The record pattern of extract_data_from_text, as the backtracking       *)
(* matcher tries it.  Positions are 1-based; an end position is exclusive. *)
(* A failed attempt is the empty tuple.                                    *)
(***************************************************************************)

\* length of the longest run of characters of class S starting at position i
RECURSIVE RunLen(_, _, _)
RunLen(t, i, S) ==
    IF i <= Len(t) /\ t[i] \in S THEN 1 + RunLen(t, i + 1, S) ELSE 0

\* a literal matched at position q, ignoring case
Lit(t, q, w) ==
    /\ q + Len(w) - 1 <= Len(t)
    /\ \A k \in DOMAIN w : LowerChar(t[q + k - 1]) = LowerChar(w[k])

\* (\d+(\.\d+)?|A|None|Absent|abs|D): end of the mark at q, 0 when none matches.
\* Nothing follows the group, so the first alternative that matches is kept.
MarkEnd(t, q) ==
    LET d == RunLen(t, q, Digits)
        f == IF q + d <= Len(t) /\ t[q + d] = "." THEN RunLen(t, q + d + 1, Digits) ELSE 0
    IN  IF d >= 1 THEN (IF f >= 1 THEN q + d + 1 + f ELSE q + d)
        ELSE IF Lit(t, q, <<"A">>) THEN q + 1
        ELSE IF Lit(t, q, <<"N", "o", "n", "e">>) THEN q + 4
        ELSE IF Lit(t, q, <<"A", "b", "s", "e", "n", "t">>) THEN q + 6
        ELSE IF Lit(t, q, <<"a", "b", "s">>) THEN q + 3
        ELSE IF Lit(t, q, <<"D">>) THEN q + 1
        ELSE 0

\* the first alternative the matcher tries that succeeds
OrElse(first, second) == IF first # <<>> THEN first ELSE second

\* the positions already fixed, put in front of a successful continuation
Prefixed(fixed, rest) == IF rest = <<>> THEN <<>> ELSE fixed \o rest

\* the mark at q as <<q, end>>
MarkAt(t, q) == IF MarkEnd(t, q) > 0 THEN <<q, MarkEnd(t, q)>> ELSE <<>>

\* \s+ (greedy: s whitespace characters, longest first) and then the mark
RECURSIVE MarkAfterSpaces(_, _, _)
MarkAfterSpaces(t, p, s) ==
    IF s < 1 THEN <<>>
    ELSE OrElse(MarkAt(t, p + s), MarkAfterSpaces(t, p, s - 1))

MarkTail(t, p) == MarkAfterSpaces(t, p, RunLen(t, p, Spaces))

\* .*?\) (lazy: the nearest closing parenthesis first; . excludes newline)
RECURSIVE ParenBody(_, _)
ParenBody(t, c) ==
    IF c > Len(t) THEN <<>>
    ELSE OrElse(IF t[c] = ")" THEN MarkTail(t, c + 1) ELSE <<>>,
                IF t[c] # NL THEN ParenBody(t, c + 1) ELSE <<>>)

\* \s*\( (greedy: s whitespace characters, longest first) and the aside
RECURSIVE Aside(_, _, _)
Aside(t, ne, s) ==
    IF s < 0 THEN <<>>
    ELSE OrElse(IF ne + s <= Len(t) /\ t[ne + s] = "(" THEN ParenBody(t, ne + s + 1) ELSE <<>>,
                Aside(t, ne, s - 1))

\* (?:\s*\(.*?\))? is tried with the aside first, then without it
AfterName(t, ne) == OrElse(Aside(t, ne, RunLen(t, ne, Spaces)), MarkTail(t, ne))

\* ([A-Za-z\s]+?) (lazy: the shortest name first); the name is t[ns .. ne-1]
RECURSIVE NameFrom(_, _, _)
NameFrom(t, ns, ne) ==
    IF ne - 1 > Len(t) \/ t[ne - 1] \notin NameChars THEN <<>>
    ELSE OrElse(Prefixed(<<ns, ne>>, AfterName(t, ne)), NameFrom(t, ns, ne + 1))

\* \s+ after the enrollment token (greedy) and then the name
RECURSIVE NameAfterSpaces(_, _, _)
NameAfterSpaces(t, e1, s) ==
    IF s < 1 THEN <<>>
    ELSE OrElse(NameFrom(t, e1 + s, e1 + s + 1), NameAfterSpaces(t, e1, s - 1))

\* (0801[A-Z\d]*[A-Z]?) (greedy: the longest token first); the token is t[i .. e1-1]
RECURSIVE EnrollFrom(_, _, _)
EnrollFrom(t, i, e1) ==
    IF e1 < i + 4 THEN <<>>
    ELSE OrElse(Prefixed(<<i, e1>>, NameAfterSpaces(t, e1, RunLen(t, e1, Spaces))),
                EnrollFrom(t, i, e1 - 1))

\* pattern.match at position i: <<i, e1, ns, ne, ms, me>> or <<>>
MatchAt(t, i) ==
    IF Lit(t, i, <<"0", "8", "0", "1">>)
    THEN EnrollFrom(t, i, i + 4 + RunLen(t, i + 4, AlnumChars))
    ELSE <<>>

\* pattern.findall(text): groups 1..3 of the non-overlapping matches, left to right
\* groups 1..3 of the match m
MatchGroups(t, m) == <<Slice(t, m[1], m[2]), Slice(t, m[3], m[4]), Slice(t, m[5], m[6])>>

\* the scan of findall from position i, m being the attempt at i
RECURSIVE FindFrom(_, _, _)
FindFrom(t, i, m) ==
    IF i > Len(t) THEN <<>>
    ELSE IF m # <<>> THEN <<MatchGroups(t, m)>> \o FindFrom(t, m[6], MatchAt(t, m[6]))
    ELSE FindFrom(t, i + 1, MatchAt(t, i + 1))

FindAll(t, i) == FindFrom(t, i, MatchAt(t, i))

(***************************************************************************)
(* Text assembly: extract_images_from_pdf, extract_text_using_easyocr and  *)
(* extract_text_from_pdf_using_easyocr.                                    *)
(***************************************************************************)

RECURSIVE Concat(_)
Concat(ss) == IF ss = <<>> THEN <<>> ELSE Head(ss) \o Concat(Tail(ss))

\* images.append(image) for every image of every page, in page order
extract_images_from_pdf(doc) == Concat(doc)

\* " ".join([result[1] for result in results])
extract_text_using_easyocr(image) == Join(image, <<SP>>)

\* variant: each image's text is put in front of the text built so far
RECURSIVE AssembleTextPrepend(_)
AssembleTextPrepend(images) ==
    IF images = <<>> THEN <<>>
    ELSE AssembleTextPrepend(Tail(images)) \o extract_text_using_easyocr(Head(images)) \o <<NL>>

\* full_text += text + "\n" for every image
RECURSIVE AssembleText(_)
AssembleText(images) ==
    IF images = <<>> THEN <<>>
    ELSE extract_text_using_easyocr(Head(images)) \o <<NL>> \o AssembleText(Tail(images))

extract_text_from_pdf_using_easyocr(doc) == AssembleText(extract_images_from_pdf(doc))

\* variant: the text is tested without stripping it (if not text)
IsEmptyText(text) == text = <<>>

\* not text.strip()
IsBlankText(text) == Strip(text) = <<>>

(***************************************************************************)
(* Classification of one match (extract_data_from_text, the loop body).    *)
(***************************************************************************)

\* None / NaN: a value no character sequence and no parsed number equals
Null == <<"<null>">>
NullStatus == "<null>"

PassMark == 22

AbsentTokens == {<<"a">>, <<"a", "b", "s", "e", "n", "t">>, <<"n", "o", "n", "e">>, <<"a", "b", "s">>}

\* variant: the token is compared without lower()
IsAbsentTokenCaseSensitive(tok) == tok \in AbsentTokens

\* marks_or_status.lower() in ["a", "absent", "none", "abs"]
IsAbsentToken(tok) == Lower(tok) \in AbsentTokens

\* marks_or_status.lower() == "d"
IsDetainedToken(tok) == Lower(tok) = <<"d">>

\* variant: isdigit() without replace(".", "")
IsNumeralTokenNoReplace(tok) == tok # <<>> /\ \A k \in DOMAIN tok : tok[k] \in Digits

\* marks_or_status.replace(".", "").isdigit()
IsNumeralToken(tok) ==
    LET r == SelectSeq(tok, LAMBDA c : c # ".")
    IN  r # <<>> /\ \A k \in DOMAIN r : r[k] \in Digits

RECURSIVE DigitsValue(_)
DigitsValue(ds) ==
    IF ds = <<>> THEN 0
    ELSE 10 * DigitsValue(SubSeq(ds, 1, Len(ds) - 1)) + DigitVal(ds[Len(ds)])

RECURSIVE Pow10(_)
Pow10(k) == IF k = 0 THEN 1 ELSE 10 * Pow10(k - 1)

\* float(marks_or_status) for digits with at most one point: the exact decimal
\* value, kept as <<numerator, denominator>> with a power of ten as denominator
ParseFloat(tok) ==
    LET dot == IF \E k \in DOMAIN tok : tok[k] = "."
               THEN CHOOSE k \in DOMAIN tok : tok[k] = "." /\ \A j \in 1..(k - 1) : tok[j] # "."
               ELSE Len(tok) + 1
        frac == IF dot <= Len(tok) THEN Len(tok) - dot ELSE 0
    IN  <<DigitsValue(SelectSeq(tok, LAMBDA c : c # ".")), Pow10(frac)>>

\* the if / elif chain that determines marks and status
ClassifyToken(tok) ==
    IF IsAbsentToken(tok) THEN [marks |-> Null, status |-> "Absent"]
    ELSE IF IsDetainedToken(tok) THEN [marks |-> Null, status |-> "Detained"]
    ELSE IF IsNumeralToken(tok) THEN [marks |-> ParseFloat(tok), status |-> "Present"]
    ELSE [marks |-> Null, status |-> "Unknown"]

\* one tuple appended to data
DataRow(match) ==
    LET c == ClassifyToken(Strip(match[3]))
    IN  [enr |-> Strip(match[1]), name |-> Strip(match[2]), marks |-> c.marks, status |-> c.status]

extract_data_from_text(ms) == [k \in DOMAIN ms |-> DataRow(ms[k])]

(***************************************************************************)
(* process_data.                                                           *)
(***************************************************************************)

\* df.dropna(subset=['Enrollment No', 'Name'])
DropNa(rows) == SelectSeq(rows, LAMBDA r : r.enr # Null /\ r.name # Null)

\* variant: the cutoff is exclusive (> 22)
PassRuleStrict(m) == m # Null /\ m[1] > PassMark * m[2]

\* df['Marks'].notnull() & (df['Marks'] >= 22)
PassRule(m) == m # Null /\ m[1] >= PassMark * m[2]

\* df['Marks'].notnull() & (df['Marks'] < 22)
FailRule(m) == m # Null /\ m[1] < PassMark * m[2]

\* the two df.loc assignments, in order
MarkStatus(r) ==
    LET s1 == IF PassRule(r.marks) THEN "Pass" ELSE r.status
    IN  IF FailRule(r.marks) THEN "Fail" ELSE s1

\* variant: every row without marks is flagged (df['Marks'].isnull())
DetainedFlagNullMarks(r, status) == r.marks = Null

\* df['Detained'] = df['Status'] == 'Detained'
DetainedFlag(r, status) == status = "Detained"

\* df['Status'].fillna('Absent')
FillNa(status) == IF status = NullStatus THEN "Absent" ELSE status

ProcessRow(r) ==
    LET s == MarkStatus(r)
    IN  [enr |-> r.enr, name |-> r.name, marks |-> r.marks,
         status |-> FillNa(s), detained |-> DetainedFlag(r, s)]

ProcessFrame(rows) == LET kept == DropNa(rows) IN [k \in DOMAIN kept |-> ProcessRow(kept[k])]

\* variant: the absent frame is taken by missing marks (df[df['Marks'].isnull()])
SelectStatusNullMarks(frame, s) ==
    IF s = "Absent" THEN SelectSeq(frame, LAMBDA r : r.marks = Null)
    ELSE SelectSeq(frame, LAMBDA r : r.status = s)

\* df[df['Status'] == s]
SelectStatus(frame, s) == SelectSeq(frame, LAMBDA r : r.status = s)

(***************************************************************************)
(* generate_excel: one sheet per non-empty frame.                          *)
(***************************************************************************)
SheetNames(p, f, a, d) ==
    (IF p # <<>> THEN <<"Passed Students">> ELSE <<>>)
    \o (IF f # <<>> THEN <<"Failed Students">> ELSE <<>>)
    \o (IF a # <<>> THEN <<"Absent Students">> ELSE <<>>)
    \o (IF d # <<>> THEN <<"Detained Students">> ELSE <<>>)

(***************************************************************************)
(* Documents the run is started on.                                        *)
(***************************************************************************)
MaxNameWords == 2
MaxSpans == 4
MaxPages == 3

SeqsUpTo(S, n) == UNION {[1..k -> S] : k \in 0..n}

w0801 == <<"0", "8", "0", "1">>
w0801Cs1 == <<"0", "8", "0", "1", "C", "s", "1">>
wJo == <<"J", "o">>
wDoe == <<"D", "o", "e">>
wal == <<"a", "l">>
wNg == <<"N", "g">>

EnrPool == {w0801, w0801Cs1}
NamePool == {wJo, wDoe, wal, wNg}
AsidePool == {<<>>, <<<<"(", "x", ")">>>>}
MarkPool == {<<"2", "2">>, <<"2", "1", ".", "5">>, <<"2", "2", ".", "5">>, <<"5">>, <<"1", "0", "0">>, <<"A">>, <<"a">>, <<"n", "O", "n", "E">>, <<"D">>, <<"d">>, <<"a", "b", "s">>, <<"A", "b", "s", "e", "n", "t">>}

\* one page, one image, the OCR spans of one written record
RecordDocs ==
    {<< << <<e>> \o ns \o p \o <<m>> >> >> :
        e \in EnrPool, ns \in (SeqsUpTo(NamePool, MaxNameWords) \ {<<>>}),
        p \in AsidePool, m \in MarkPool}

SpanPool == {w0801, wJo, <<"(">>, <<")">>, <<"2", ".", "5", "x">>, <<"N", "o", "n", "e">>,
             <<"d", "A">>, <<"7", ".">>}

\* one page, one image, any spans
SpanDocs == {<< <<spans>> >> : spans \in SeqsUpTo(SpanPool, MaxSpans)}

Blank == <<>>
Line1 == <<w0801, wJo, <<"2", "2">>>>
Line2 == <<w0801Cs1, wal, <<"9", ".", "7", "5">>>>
Line3 == <<w0801, wNg, <<"d">>>>
Line4 == <<w0801, wJo, wDoe, <<"A">>>>
Line5 == <<w0801Cs1, wNg, <<"N", "O", "N", "E">>>>

PagePool == {<<>>, <<Blank>>, <<Blank, Blank>>, << <<w0801>> >>, << <<<<"5">>>> >>,
             <<Line1, Line5>>, <<Line2, Line3>>, <<Line4>>}

\* several pages, each with the images embedded in it
PageDocs == UNION {[1..k -> PagePool] : k \in 1..MaxPages}

ScenarioA ==
    << << <<<<"0", "8", "0", "1", "C", "S", "0", "2", "1">>, <<"J", "o", "h", "n">>, <<"S", "m", "i", "t", "h">>, <<"2", "5">>>> >>,
       << <<<<"0", "8", "0", "1", "C", "S", "0", "2", "2">>, <<"J", "a", "n", "e">>, <<"D", "o", "e">>, <<"A">>>> >>,
       << <<<<"0", "8", "0", "1", "C", "S", "0", "2", "3">>, <<"R", "a", "v", "i">>, <<"K", "u", "m", "a", "r">>, <<"D">>>> >>,
       << <<<<"0", "8", "0", "1", "C", "S", "0", "2", "4">>, <<"M", "e", "e", "r", "a">>, <<"R", "a", "o">>, <<"1", "8">>>> >> >>

ScenarioB == << << <<<<"0", "8", "0", "1", "C", "S", "0", "2", "5">>, <<"A", "l", "e", "x">>, <<"R", "o", "y">>, <<"2", "2">>>> >> >>

Docs == RecordDocs \cup SpanDocs \cup PageDocs \cup {ScenarioA, ScenarioB}

(***************************************************************************)
(* main(), from the saved upload to the end of the run.                    *)
(***************************************************************************)
Init ==
    /\ pdf \in Docs
    /\ pc = "uploaded"
    /\ full_text = <<>>
    /\ matches = <<>>
    /\ data = <<>>
    /\ df = <<>>
    /\ passed = <<>>
    /\ failed = <<>>
    /\ absent = <<>>
    /\ detained = <<>>
    /\ sheets = Null
    /\ outcome = "running"
    /\ calls = <<>>

\* text = extract_text_from_pdf_using_easyocr(pdf_path)
ExtractText ==
    /\ pc = "uploaded"
    /\ full_text' = extract_text_from_pdf_using_easyocr(pdf)
    /\ calls' = Append(calls, "extract_text_from_pdf_using_easyocr")
    /\ pc' = "text"
    /\ UNCHANGED <<pdf, matches, data, df, passed, failed, absent, detained, sheets, outcome>>

\* if not text.strip(): st.error(...); return
NoDataExtracted ==
    /\ pc = "text"
    /\ IsBlankText(full_text)
    /\ outcome' = "error: No data extracted"
    /\ pc' = "done"
    /\ UNCHANGED <<pdf, full_text, matches, data, df, passed, failed, absent, detained, sheets, calls>>

\* data = extract_data_from_text(text)
ExtractData ==
    /\ pc = "text"
    /\ ~IsBlankText(full_text)
    /\ matches' = FindAll(full_text, 1)
    /\ data' = extract_data_from_text(matches')
    /\ calls' = Append(calls, "extract_data_from_text")
    /\ pc' = "extracted"
    /\ UNCHANGED <<pdf, full_text, df, passed, failed, absent, detained, sheets, outcome>>

\* passed, failed, absent, detained = process_data(data)
ProcessData ==
    /\ pc = "extracted"
    /\ df' = ProcessFrame(data)
    /\ passed' = SelectStatus(df', "Pass")
    /\ failed' = SelectStatus(df', "Fail")
    /\ absent' = SelectStatus(df', "Absent")
    /\ detained' = SelectStatus(df', "Detained")
    /\ calls' = Append(calls, "process_data")
    /\ pc' = "processed"
    /\ UNCHANGED <<pdf, full_text, matches, data, sheets, outcome>>

\* generate_excel(...): the workbook is written
GenerateExcel ==
    /\ pc = "processed"
    /\ sheets' = SheetNames(passed, failed, absent, detained)
    /\ calls' = Append(calls, "generate_excel")
    /\ pc' = "exported"
    /\ UNCHANGED <<pdf, full_text, matches, data, df, passed, failed, absent, detained, outcome>>

\* generate_excel(...) with no sheet written: the writer engine in use may
\* refuse to save a workbook without sheets, and the exception ends the run
GenerateExcelRaises ==
    /\ pc = "processed"
    /\ SheetNames(passed, failed, absent, detained) = <<>>
    /\ calls' = Append(calls, "generate_excel")
    /\ outcome' = "exception"
    /\ pc' = "done"
    /\ UNCHANGED <<pdf, full_text, matches, data, df, passed, failed, absent, detained, sheets>>

\* the four frames are displayed and the download button is offered
OfferDownload ==
    /\ pc = "exported"
    /\ outcome' = "download"
    /\ pc' = "done"
    /\ UNCHANGED <<pdf, full_text, matches, data, df, passed, failed, absent, detained, sheets, calls>>

Next ==
    \/ ExtractText
    \/ NoDataExtracted
    \/ ExtractData
    \/ ProcessData
    \/ GenerateExcel
    \/ GenerateExcelRaises
    \/ OfferDownload

Spec == Init /\ [][Next]_vars


(***************************************************************************)
(* Vocabulary of the properties.                                           *)
(***************************************************************************)
Ran(f) == \E k \in DOMAIN calls : calls[k] = f

AllWhitespace(text) == \A k \in DOMAIN text : text[k] \in Spaces

\* digits, optionally followed by a point and digits
IsNumeral(tok) ==
    LET d == RunLen(tok, 1, Digits)
    IN  /\ d >= 1
        /\ \/ d = Len(tok)
           \/ /\ d + 1 < Len(tok)
              /\ tok[d + 1] = "."
              /\ RunLen(tok, d + 2, Digits) = Len(tok) - d - 1

\* value of the digits tok[i .. j], most significant first
RECURSIVE PlaceValue(_, _, _)
PlaceValue(tok, i, j) ==
    IF i > j THEN 0
    ELSE DigitVal(tok[i]) * Pow10(j - i) + PlaceValue(tok, i + 1, j)

IntDigits(tok) == RunLen(tok, 1, Digits)
IntPart(tok) == PlaceValue(tok, 1, IntDigits(tok))
FracDigits(tok) == IF IntDigits(tok) = Len(tok) THEN 0 ELSE Len(tok) - IntDigits(tok) - 1
FracPart(tok) == PlaceValue(tok, IntDigits(tok) + 2, Len(tok))

\* c is the letter l (given in lower case) in either case
SameLetter(c, l) == c = l \/ \E j \in DOMAIN LowerChars : LowerChars[j] = l /\ UpperChars[j] = c

CaseVariant(tok, w) == Len(tok) = Len(w) /\ \A k \in DOMAIN w : SameLetter(tok[k], w[k])

IsAbsentWord(tok) ==
    \/ CaseVariant(tok, <<"a">>)
    \/ CaseVariant(tok, <<"a", "b", "s", "e", "n", "t">>)
    \/ CaseVariant(tok, <<"n", "o", "n", "e">>)
    \/ CaseVariant(tok, <<"a", "b", "s">>)

IsDetainedWord(tok) == CaseVariant(tok, <<"d">>)

\* the raw mark-or-status token of the k-th match
Token(k) == Strip(matches[k][3])

Groups == <<passed, failed, absent, detained>>
GroupStatus == <<"Pass", "Fail", "Absent", "Detained">>

\* rows of df with status s, and the place of row k among them
RowsWith(s) == {k \in DOMAIN df : df[k].status = s}
PlaceIn(s, k) == Cardinality({j \in RowsWith(s) : j <= k})

\* group g is the rows of df with status s, in the order of df
IsSubsequenceByStatus(g, s) ==
    /\ Len(g) = Cardinality(RowsWith(s))
    /\ \A k \in RowsWith(s) : g[PlaceIn(s, k)] = df[k]

\* pieces of s between occurrences of the character c
RECURSIVE SplitBy(_, _)
SplitBy(s, c) ==
    IF \E k \in DOMAIN s : s[k] = c
    THEN LET k == CHOOSE k \in DOMAIN s : s[k] = c /\ \A j \in 1..(k - 1) : s[j] # c
         IN  <<SubSeq(s, 1, k - 1)>> \o SplitBy(SubSeq(s, k + 1, Len(s)), c)
    ELSE <<s>>

\* the written lines of the text: it ends with a newline
WrittenLines(text) ==
    LET ps == SplitBy(text, NL) IN SubSeq(ps, 1, Len(ps) - 1)

IsEnrollmentWord(w) ==
    Len(w) >= 4 /\ SubSeq(w, 1, 4) = <<"0", "8", "0", "1">> /\ \A k \in DOMAIN w : w[k] \in AlnumChars

IsNameWord(w) == w # <<>> /\ \A k \in DOMAIN w : w[k] \in Letters

\* enrollment token, one or more name words, a numeral or a status token
WellFormedLine(l) ==
    LET ws == SplitBy(l, SP)
    IN  /\ Len(ws) >= 3
        /\ IsEnrollmentWord(ws[1])
        /\ \A k \in 2..(Len(ws) - 1) : IsNameWord(ws[k])
        /\ LET m == ws[Len(ws)] IN IsNumeral(m) \/ IsAbsentWord(m) \/ IsDetainedWord(m)

WellFormedText(text) ==
    /\ text # <<>>
    /\ text[Len(text)] = NL
    /\ WrittenLines(text) # <<>>
    /\ \A k \in DOMAIN WrittenLines(text) : WellFormedLine(WrittenLines(text)[k])

\* the record a well-formed line writes down
WrittenRecord(l) ==
    LET ws == SplitBy(l, SP)
    IN  <<ws[1], Join(SubSeq(ws, 2, Len(ws) - 1), <<SP>>), ws[Len(ws)]>>

Names(g) == [k \in DOMAIN g |-> g[k].name]

\* the images of the document, by page and place on the page
ImagePlaces == UNION {{<<p, i>> : i \in DOMAIN pdf[p]} : p \in DOMAIN pdf}
ImageRank(q) == Cardinality({r \in ImagePlaces : r[1] < q[1] \/ (r[1] = q[1] /\ r[2] <= q[2])})
ImageText(q) == Join(pdf[q[1]][q[2]], <<SP>>)
\* where the text of the image at place q starts in the assembled text
RECURSIVE SumLen(_)
SumLen(Q) ==
    IF Q = {} THEN 0
    ELSE LET q == CHOOSE r \in Q : TRUE IN Len(ImageText(q)) + 1 + SumLen(Q \ {q})
ImageStart(q) == 1 + SumLen({r \in ImagePlaces : ImageRank(r) < ImageRank(q)})

(***************************************************************************)
(* C1: for every raw mark token that is a numeral, the record's status     *)
(* after process_data is Pass if the numeral is at least 22 and Fail       *)
(* otherwise (22 itself is Pass), its mark is the numeral's value, the     *)
(* same before and after process_data, and it is never left 'Present'.     *)
(***************************************************************************)
C1_NumeralPassFail ==
    Ran("process_data") =>
        /\ Len(df) = Len(matches)
        /\ \A k \in DOMAIN matches :
              IsNumeral(Token(k)) =>
                  /\ df[k].status = (IF IntPart(Token(k)) >= 22 THEN "Pass" ELSE "Fail")
                  /\ df[k].marks = data[k].marks
                  /\ df[k].marks # Null
                  /\ df[k].marks[2] = Pow10(FracDigits(Token(k)))
                  /\ df[k].marks[1] = IntPart(Token(k)) * df[k].marks[2] + FracPart(Token(k))

C1_Witness ==
    /\ Ran("process_data")
    /\ \E k, j \in DOMAIN matches :
          /\ Token(k) = <<"2", "2">> /\ df[k].status = "Pass" /\ df[k] = passed[1]
          /\ Token(j) = <<"9", ".", "7", "5">> /\ df[j].status = "Fail" /\ df[j] = failed[1]

(***************************************************************************)
(* C2: on text made of well-formed records, one per line, the extractor    *)
(* yields exactly the written records in text order, each with its whole   *)
(* name and its final token; scenario A gives John Smith passed, Jane Doe  *)
(* absent, Ravi Kumar detained and Meera Rao failed.                       *)
(***************************************************************************)
C2_WrittenRecordsExtracted ==
    /\ (Ran("extract_data_from_text") /\ WellFormedText(full_text)) =>
          /\ Len(matches) = Len(WrittenLines(full_text))
          /\ \A k \in DOMAIN matches : matches[k] = WrittenRecord(WrittenLines(full_text)[k])
    /\ (Ran("process_data") /\ pdf = ScenarioA) =>
          /\ Names(passed) = << <<"J", "o", "h", "n", " ", "S", "m", "i", "t", "h">> >>
          /\ Names(absent) = << <<"J", "a", "n", "e", " ", "D", "o", "e">> >>
          /\ Names(detained) = << <<"R", "a", "v", "i", " ", "K", "u", "m", "a", "r">> >>
          /\ Names(failed) = << <<"M", "e", "e", "r", "a", " ", "R", "a", "o">> >>

(***************************************************************************)
(* C3: a record whose enrollment id or name is empty after trimming is in  *)
(* none of the passed, failed, absent and detained frames.                 *)
(***************************************************************************)
C3_EmptyFieldsDropped ==
    Ran("process_data") =>
        \A g \in DOMAIN Groups : \A k \in DOMAIN Groups[g] :
            Groups[g][k].enr # <<>> /\ Groups[g][k].name # <<>>

(***************************************************************************)
(* C4: when text was extracted but there is nothing to export (no record   *)
(* matched, or all four frames are empty), the run ends in a reported      *)
(* failure and does not go on to export and offer a workbook.              *)
(***************************************************************************)
C4_NothingToExportAborts ==
    (/\ pc \in {"exported", "done"}
     /\ ~AllWhitespace(full_text)
     /\ (matches = <<>> \/ \A g \in DOMAIN Groups : Groups[g] = <<>>)) =>
        /\ sheets = Null
        /\ outcome # "download"

(***************************************************************************)
(* C5: when the assembled text is empty or only whitespace, the run ends   *)
(* with the error and nothing else happens: no extraction, no              *)
(* process_data, no generate_excel, no workbook and no download.           *)
(***************************************************************************)
C5_NoTextAborts ==
    (pc # "uploaded" /\ AllWhitespace(full_text)) =>
        /\ calls = <<"extract_text_from_pdf_using_easyocr">>
        /\ matches = <<>> /\ data = <<>> /\ df = <<>>
        /\ \A g \in DOMAIN Groups : Groups[g] = <<>>
        /\ sheets = Null
        /\ pc \in {"text", "done"}
        /\ pc = "text" => (ENABLED NoDataExtracted /\ ~ENABLED ExtractData)
        /\ pc = "done" => outcome = "error: No data extracted"

C5_Witness ==
    /\ pc = "done"
    /\ outcome = "error: No data extracted"
    /\ Len(full_text) >= 2
    /\ AllWhitespace(full_text)

(***************************************************************************)
(* C6: each of passed, failed, absent and detained is exactly the rows of  *)
(* the input with that status, in input order; no input row is dropped,    *)
(* and every row whose status is not Unknown is in exactly one frame.      *)
(***************************************************************************)
C6_SplitIsPartition ==
    Ran("process_data") =>
        /\ Len(df) = Len(data)
        /\ \A k \in DOMAIN df :
              /\ df[k].enr = data[k].enr /\ df[k].name = data[k].name
              /\ df[k].status # "Unknown" =>
                    Cardinality({g \in DOMAIN Groups : df[k].status = GroupStatus[g]}) = 1
        /\ \A g \in DOMAIN Groups : IsSubsequenceByStatus(Groups[g], GroupStatus[g])

C6_Witness ==
    /\ Ran("process_data")
    /\ Len(detained) >= 2 /\ detained[1] # detained[2]
    /\ passed # <<>> /\ failed # <<>> /\ absent # <<>>

(***************************************************************************)
(* C7: a token that is a case variant of a, absent, none or abs gives      *)
(* status Absent without a mark, and D or d gives status Detained without  *)
(* a mark and with the Detained flag set, before any numeric rule and      *)
(* unchanged by process_data.                                              *)
(***************************************************************************)
C7_StatusTokensAnyCase ==
    /\ Ran("extract_data_from_text") =>
          \A k \in DOMAIN matches :
              /\ IsAbsentWord(Token(k)) => data[k].status = "Absent" /\ data[k].marks = Null
              /\ IsDetainedWord(Token(k)) => data[k].status = "Detained" /\ data[k].marks = Null
    /\ Ran("process_data") =>
          \A k \in DOMAIN matches :
              /\ IsAbsentWord(Token(k)) =>
                    /\ df[k].status = "Absent" /\ df[k].marks = Null /\ ~df[k].detained
                    /\ \E j \in DOMAIN absent : absent[j] = df[k]
              /\ IsDetainedWord(Token(k)) =>
                    /\ df[k].status = "Detained" /\ df[k].marks = Null /\ df[k].detained
                    /\ \E j \in DOMAIN detained : detained[j] = df[k]

C7_Witness ==
    /\ Ran("process_data")
    /\ \E k, j \in DOMAIN matches :
          /\ Token(k) = <<"N", "O", "N", "E">> /\ df[k].status = "Absent"
          /\ Token(j) = <<"d">> /\ df[j].detained

(***************************************************************************)
(* C8: in every classified row, the mark is present exactly when the       *)
(* status is Pass or Fail, and the Detained flag is set exactly when the   *)
(* status is Detained.                                                     *)
(***************************************************************************)
C8_MarkAndFlagMatchStatus ==
    Ran("process_data") =>
        \A k \in DOMAIN df :
            /\ (df[k].marks # Null) <=> (df[k].status \in {"Pass", "Fail"})
            /\ df[k].detained <=> (df[k].status = "Detained")

C8_Witness ==
    /\ Ran("process_data")
    /\ \E k, j, i \in DOMAIN df :
          /\ df[k].status = "Pass" /\ df[k].marks # Null
          /\ df[j].status = "Detained" /\ df[j].detained
          /\ df[i].status = "Absent" /\ ~df[i].detained

(***************************************************************************)
(* C9 as stated: the text is the page texts joined by newlines, a page's   *)
(* text being all of its OCR spans joined by single spaces.                *)
(***************************************************************************)
C9_PagesJoinedByNewline ==
    pc # "uploaded" =>
        full_text = Join([p \in DOMAIN pdf |-> Join(Concat(pdf[p]), <<SP>>)], <<NL>>)

(***************************************************************************)
(* C9 amended: the text is the texts of the embedded images, in page order *)
(* and within a page in image order, each the image's spans joined by      *)
(* single spaces and each followed by a newline; nothing else is in it.    *)
(***************************************************************************)
C9_ImagesEachEndedByNewline ==
    pc # "uploaded" =>
        /\ Len(full_text) = SumLen(ImagePlaces)
        /\ \A q \in ImagePlaces :
              /\ SubSeq(full_text, ImageStart(q), ImageStart(q) + Len(ImageText(q)) - 1) = ImageText(q)
              /\ full_text[ImageStart(q) + Len(ImageText(q))] = NL

C9_Witness ==
    /\ pc # "uploaded"
    /\ Len(pdf) >= 2
    /\ \E p, r \in DOMAIN pdf :
          /\ p < r
          /\ Len(pdf[p]) = 2 /\ Len(pdf[p][1]) >= 2 /\ pdf[p][1] # pdf[p][2]
          /\ pdf[r] # <<>> /\ pdf[r][1] # pdf[p][1] /\ pdf[r][1] # <<>>

(***************************************************************************)
(* C10: every record the extractor emits has a token that one of the first *)
(* three rules accepts, so no record is Unknown and every record is in     *)
(* exactly one of the four frames.                                         *)
(***************************************************************************)
C10_NoUnknownRecord ==
    /\ Ran("extract_data_from_text") =>
          /\ Len(data) = Len(matches)
          /\ \A k \in DOMAIN matches :
                /\ IsAbsentWord(Token(k)) \/ IsDetainedWord(Token(k)) \/ IsNumeral(Token(k))
                /\ data[k].status \in {"Absent", "Detained", "Present"}
    /\ Ran("process_data") =>
          /\ \A k \in DOMAIN df : df[k].status \in Range(GroupStatus)
          /\ Len(passed) + Len(failed) + Len(absent) + Len(detained) = Len(matches)

C10_Witness ==
    /\ Ran("process_data")
    /\ \E k \in DOMAIN matches : Token(k) = <<"2", ".", "5">> /\ df[k].status = "Fail"
    /\ \E k \in DOMAIN full_text : full_text[k] = "x"

====
